---- MODULE Spec2Model ----
(***************************************************************************)
(* A model of src/main.py (SwiftDocsAI): the chunking-and-reduction        *)
(* pipeline that turns a source tree into one document through repeated    *)
(* calls of a text-generation service.                                     *)
(*                                                                         *)
(* Texts are sequences of characters over a three-letter alphabet: a word  *)
(* character, a space and a newline.  len() is Len, str.split() is Split,  *)
(* readlines() is ReadLines, "".join is Join, and str() of a list is       *)
(* ReprList, each computed the way Python computes it.                     *)
(*                                                                         *)
(* Sizes are scaled down: the source's budget of 400000 characters and     *)
(* 90000 words (less the instruction prompt) becomes a budget of a few     *)
(* characters and words, the batch size of 8 becomes 2.  The code compares *)
(* sizes with the budget and never uses their magnitude otherwise.         *)
(***************************************************************************)
EXTENDS Integers, Sequences, FiniteSets, TLC

----------------------------------------------------------------------------
(* Bounds of the model *)

\* Longest file, in characters, that the segmenter is run on.
MaxFileLen == 7

\* Most files of a corpus.
MaxFiles == 3

\* Most results handed to combine_results alone.
MaxResults == 3

\* Most bundles the while loop is followed with: combine_results can return
\* one bundle more than it was given results, round after round.
MaxBundles == 4

\* Largest number of equal partial results handed to combine_results.
MaxEqual == 10

\* src/main.py:427, scaled (the source has 8): the requests of one batch.
BATCH_SIZE == 2

\* src/main.py:39, scaled (the source has 400000).
DEFAULT_MAX_CHARS == 7

\* src/main.py:40, scaled (the source has 90000).
DEFAULT_MAX_WORDS == 3

\* src/main.py:154, scaled: len(INSTRUCTION_PROMPT).
INSTRUCTION_CHARS == 2

\* src/main.py:155, scaled: len(INSTRUCTION_PROMPT.split()).
INSTRUCTION_WORDS == 1

----------------------------------------------------------------------------
(* Texts *)

CH == "a"
SP == " "
NL == "\n"

Alphabet == {CH, SP, NL}

\* str.isspace() on the alphabet.
IsSpace(c) == c \in {SP, NL}

\* Every text of at most n characters.
Texts(n) == UNION {[1..k -> Alphabet] : k \in 0..n}

\* Every sequence of at most n elements of S.
Seqs(S, n) == UNION {[1..k -> S] : k \in 0..n}

\* A word of n characters.
Word(n) == [i \in 1..n |-> CH]

\* F(v), with v worked out once before F reads it.
Strict(F(_), v) == CHOOSE r \in {F(x) : x \in {v}} : TRUE

\* len(s.split()): the number of maximal runs of non-whitespace characters.
WordCount(s) ==
    Cardinality({i \in 1..Len(s) :
                    /\ ~IsSpace(s[i])
                    /\ (i = 1 \/ IsSpace(s[i-1]))})

\* The positions a line of the text ends at: each newline, and the last
\* character.
LineEnds(text) == {i \in 1..Len(text) : text[i] = NL \/ i = Len(text)}

\* f.readlines(): the text cut after each newline, line ends kept.
ReadLines(text) ==
    LET ends   == LineEnds(text)
        end(j) == CHOOSE e \in ends : Cardinality({x \in ends : x <= e}) = j
    IN  [j \in 1..Cardinality(ends) |->
            SubSeq(text, IF j = 1 THEN 1 ELSE end(j - 1) + 1, end(j))]

\* "".join(parts)
RECURSIVE Join(_)
Join(parts) ==
    IF parts = <<>> THEN <<>> ELSE Head(parts) \o Join(Tail(parts))

\* The summed word counts of a list of texts.
RECURSIVE SumWords(_)
SumWords(parts) ==
    IF parts = <<>> THEN 0 ELSE WordCount(Head(parts)) + SumWords(Tail(parts))

\* The summed character counts of a list of texts.
SumChars(parts) == Len(Join(parts))

\* The effective budget (DEFAULT_MAX_* less the instruction prompt).
MAX_CHARS == DEFAULT_MAX_CHARS - INSTRUCTION_CHARS
MAX_WORDS == DEFAULT_MAX_WORDS - INSTRUCTION_WORDS

\* A text whose size is within the effective budget.
Fits(t) == Len(t) <= MAX_CHARS /\ WordCount(t) <= MAX_WORDS

----------------------------------------------------------------------------
(* process_file *)

\* A file on disk: its text, or unreadable (open() raises).
ReadableFile(t) == [readable |-> TRUE, text |-> t]
UnreadableFile == [readable |-> FALSE, text |-> <<>>]

\* f"### File: {file_path}\n### Chunk: {n}\n"
Metadata(file_path, n) == [File |-> file_path, Chunk |-> n]

\* Mutant: the word limit is not tested.
PF_Overflows_CharsOnly(current_chars, current_words, line_chars, line_words) ==
    current_chars + line_chars > DEFAULT_MAX_CHARS - INSTRUCTION_CHARS

\* Mutant: >= in place of >.
PF_Overflows_Geq(current_chars, current_words, line_chars, line_words) ==
    \/ current_chars + line_chars >= DEFAULT_MAX_CHARS - INSTRUCTION_CHARS
    \/ current_words + line_words >= DEFAULT_MAX_WORDS - INSTRUCTION_WORDS

\* The test that closes the current chunk.
PF_Overflows(current_chars, current_words, line_chars, line_words) ==
    \/ current_chars + line_chars > DEFAULT_MAX_CHARS - INSTRUCTION_CHARS
    \/ current_words + line_words > DEFAULT_MAX_WORDS - INSTRUCTION_WORDS

\* The locals of process_file before the loop.
PF_Start ==
    [chunks |-> <<>>, current_chunk |-> <<>>,
     current_chars |-> 0, current_words |-> 0]

\* chunks.append((metadata, "".join(current_chunk)))
PF_Append(file_path, st) ==
    Append(st.chunks,
           <<Metadata(file_path, Len(st.chunks) + 1), Join(st.current_chunk)>>)

\* Mutant: the line that overflows the chunk is not carried into the next one.
PF_Line_DropOverflowing(file_path, st, line) ==
    IF PF_Overflows(st.current_chars, st.current_words, Len(line), WordCount(line))
    THEN [chunks |-> PF_Append(file_path, st), current_chunk |-> <<>>,
          current_chars |-> 0, current_words |-> 0]
    ELSE [chunks |-> st.chunks,
          current_chunk |-> Append(st.current_chunk, line),
          current_chars |-> st.current_chars + Len(line),
          current_words |-> st.current_words + WordCount(line)]

\* One iteration of "for line in content".
PF_Line(file_path, st0, line) ==
    LET line_words == WordCount(line)
        line_chars == Len(line)
        Body(st) ==
            LET flushed ==
                    IF PF_Overflows(st.current_chars, st.current_words,
                                    line_chars, line_words)
                    THEN [chunks |-> PF_Append(file_path, st),
                          current_chunk |-> <<>>,
                          current_chars |-> 0, current_words |-> 0]
                    ELSE st
            IN  [chunks |-> flushed.chunks,
                 current_chunk |-> Append(flushed.current_chunk, line),
                 current_chars |-> flushed.current_chars + line_chars,
                 current_words |-> flushed.current_words + line_words]
    IN  Strict(Body, st0)

\* The whole loop over the lines.
RECURSIVE PF_Loop(_, _, _)
PF_Loop(file_path, st, content) ==
    IF content = <<>> THEN st
    ELSE PF_Loop(file_path, PF_Line(file_path, st, Head(content)), Tail(content))

\* "if current_chunk:" after the loop.
PF_Finish(file_path, st) ==
    IF st.current_chunk # <<>> THEN PF_Append(file_path, st) ELSE st.chunks

\* process_file(file_path): the chunks of the file; none when it cannot be read.
ProcessFile(file_path, file) ==
    IF ~file.readable THEN <<>>
    ELSE PF_Finish(file_path, PF_Loop(file_path, PF_Start, ReadLines(file.text)))

\* all_chunks.extend(process_file(file_path)) for every file, in list order.
AllChunks(files) == Join([i \in 1..Len(files) |-> ProcessFile(i, files[i])])

\* The texts of a list of (metadata, chunk) pairs.
ChunkTexts(chunks) == [i \in 1..Len(chunks) |-> chunks[i][2]]

----------------------------------------------------------------------------
(* combine_chunks *)

\* Mutant: the word limit is not tested.
CC_Overflows_CharsOnly(current_chars, current_words, chunk_chars, chunk_words) ==
    current_chars + chunk_chars > (DEFAULT_MAX_CHARS - INSTRUCTION_CHARS)

\* The test that closes the current bundle.
CC_Overflows(current_chars, current_words, chunk_chars, chunk_words) ==
    \/ current_chars + chunk_chars > (DEFAULT_MAX_CHARS - INSTRUCTION_CHARS)
    \/ current_words + chunk_words > (DEFAULT_MAX_WORDS - INSTRUCTION_WORDS)

\* The locals of combine_chunks before the loop.
CC_Start ==
    [combined_chunks |-> <<>>, current_metadata |-> <<>>, current_chunk |-> <<>>,
     current_chars |-> 0, current_words |-> 0]

\* One iteration of "for metadata, chunk in all_chunks".
CC_Unit(st0, unit) ==
    LET metadata    == unit[1]
        chunk       == unit[2]
        chunk_chars == Len(chunk)
        chunk_words == WordCount(chunk)
        Body(st) ==
            LET flushed ==
                    IF CC_Overflows(st.current_chars, st.current_words,
                                    chunk_chars, chunk_words)
                    THEN [combined_chunks |->
                              Append(st.combined_chunks,
                                     <<st.current_metadata, st.current_chunk>>),
                          current_metadata |-> <<>>, current_chunk |-> <<>>,
                          current_chars |-> 0, current_words |-> 0]
                    ELSE st
            IN  [combined_chunks  |-> flushed.combined_chunks,
                 current_metadata |-> Append(flushed.current_metadata, metadata),
                 current_chunk    |-> Append(flushed.current_chunk, chunk),
                 current_chars    |-> flushed.current_chars + chunk_chars,
                 current_words    |-> flushed.current_words + chunk_words]
    IN  Strict(Body, st0)

RECURSIVE CC_Loop(_, _)
CC_Loop(st, all_chunks) ==
    IF all_chunks = <<>> THEN st
    ELSE CC_Loop(CC_Unit(st, Head(all_chunks)), Tail(all_chunks))

\* "if current_chunk:" after the loop (a list: true when it holds a chunk).
CC_Finish(st) ==
    IF st.current_chunk # <<>>
    THEN Append(st.combined_chunks, <<st.current_metadata, st.current_chunk>>)
    ELSE st.combined_chunks

\* combine_chunks(all_chunks): a list of (metadata list, chunk list) bundles.
CombineChunks(all_chunks) == CC_Finish(CC_Loop(CC_Start, all_chunks))

----------------------------------------------------------------------------
(* combine_results *)

MERGE_LABEL == "Merge these documents into a consolidated single document."

\* Mutant: the word limit is not tested.
CR_FitsCurrent_CharsOnly(current_chars, current_words, result_chars, result_words) ==
    current_chars + result_chars <= DEFAULT_MAX_CHARS - INSTRUCTION_CHARS

\* The test that adds the result to the current bundle.
CR_FitsCurrent(current_chars, current_words, result_chars, result_words) ==
    /\ current_chars + result_chars <= DEFAULT_MAX_CHARS - INSTRUCTION_CHARS
    /\ current_words + result_words <= DEFAULT_MAX_WORDS - INSTRUCTION_WORDS

\* The locals of combine_results before the loop.
CR_Start ==
    [combined |-> <<>>, str_combined |-> <<>>,
     current_chars |-> 0, current_words |-> 0]

\* One iteration of "for result in results".
CR_Unit(st0, result) ==
    LET result_chars == Len(result)
        result_words == WordCount(result)
        Body(st) ==
            IF CR_FitsCurrent(st.current_chars, st.current_words,
                              result_chars, result_words)
            THEN [combined      |-> st.combined,
                  str_combined  |-> st.str_combined \o result,
                  current_chars |-> st.current_chars + result_chars,
                  current_words |-> st.current_words + result_words]
            ELSE [combined      |->
                      Append(st.combined, <<MERGE_LABEL, st.str_combined>>),
                  str_combined  |-> result,
                  current_chars |-> result_chars,
                  current_words |-> result_words]
    IN  Strict(Body, st0)

RECURSIVE CR_Loop(_, _)
CR_Loop(st, results) ==
    IF results = <<>> THEN st
    ELSE CR_Loop(CR_Unit(st, Head(results)), Tail(results))

\* "if str_combined:" after the loop (a string: true when it is not empty).
CR_Finish(st) ==
    IF st.str_combined # <<>>
    THEN Append(st.combined, <<MERGE_LABEL, st.str_combined>>)
    ELSE st.combined

\* combine_results(results): a list of (label, text) bundles.
CombineResults(results) == CR_Finish(CR_Loop(CR_Start, results))

----------------------------------------------------------------------------
(* invoke_model_with_retry *)

\* retries=10, the attempt ceiling.
retries == 10

\* backoff_factor=2
backoff_factor == 2

\* delay = 30, the initial delay in seconds.
delay == 30

\* random.uniform(5, 10): the ends of the interval the jitter is drawn from.
JITTER_LOW == 5
JITTER_HIGH == 10

\* The jitter is a real number of the interval; the model draws its two ends.
Jitter == {JITTER_LOW, JITTER_HIGH}

\* x ** n
RECURSIVE Pow(_, _)
Pow(x, n) == IF n = 0 THEN 1 ELSE x * Pow(x, n - 1)

\* Mutant: the delay grows linearly with the attempt.
WaitTime_Linear(attempt_no, jitter) ==
    delay * (backoff_factor * attempt_no) + jitter

\* wait_time = delay * (backoff_factor**attempt) + random.uniform(5, 10)
WaitTime(attempt_no, jitter) ==
    delay * Pow(backoff_factor, attempt_no) + jitter

\* Mutant: the last attempt sleeps too (the ceiling is tested off by one).
MayRetry_OffByOne(attempt_no) == attempt_no < retries

\* "if attempt < retries - 1": a failure that is followed by another attempt.
MayRetry(attempt_no) == attempt_no < retries - 1

----------------------------------------------------------------------------
(* read_files_with_chunking *)

\* src/main.py:42
CHUNK_LIMIT == 3

\* total_chars over the files, as the first loop over file_paths sums it.
RECURSIVE TotalChars(_)
TotalChars(files) ==
    IF files = <<>> THEN 0 ELSE Len(Head(files).text) + TotalChars(Tail(files))

\* total_words over the files: len(content.split()) of each, summed.
RECURSIVE TotalWords(_)
TotalWords(files) ==
    IF files = <<>> THEN 0
    ELSE WordCount(Head(files).text) + TotalWords(Tail(files))

\* Mutant: "or" in place of "and".
ProcessingType_Or(total_chars, total_words) ==
    IF \/ total_chars <= (DEFAULT_MAX_CHARS - INSTRUCTION_CHARS) * CHUNK_LIMIT
       \/ total_words <= (DEFAULT_MAX_WORDS - INSTRUCTION_WORDS) * CHUNK_LIMIT
    THEN "sequential"
    ELSE "parallel"

\* PROCESSING_TYPE
ProcessingType(total_chars, total_words) ==
    IF /\ total_chars <= (DEFAULT_MAX_CHARS - INSTRUCTION_CHARS) * CHUNK_LIMIT
       /\ total_words <= (DEFAULT_MAX_WORDS - INSTRUCTION_WORDS) * CHUNK_LIMIT
    THEN "sequential"
    ELSE "parallel"

\* The first loop opens every file outside any try: one unreadable file
\* raises out of read_files_with_chunking.
AllReadable(files) == \A i \in 1..Len(files) : files[i].readable

----------------------------------------------------------------------------
(* invoke_model: what is sent to the gateway *)

QUOTE == "'"
BACKSLASH == "\\"

\* The escapes of repr(str): a newline becomes a backslash and an n.
RECURSIVE Escape(_)
Escape(s) ==
    IF s = <<>> THEN <<>>
    ELSE (IF Head(s) = NL THEN <<BACKSLASH, "n">> ELSE <<Head(s)>>)
         \o Escape(Tail(s))

\* repr(s) of a string without quotes in it.
ReprStr(s) == <<QUOTE>> \o Escape(s) \o <<QUOTE>>

\* ", ".join(repr(s) for s in parts)
RECURSIVE ReprItems(_)
ReprItems(parts) ==
    IF parts = <<>> THEN <<>>
    ELSE IF Len(parts) = 1 THEN ReprStr(parts[1])
    ELSE ReprStr(Head(parts)) \o <<",", SP>> \o ReprItems(Tail(parts))

\* str(parts) of a list of strings, which is what an f-string and str() make
\* of the chunk list of a bundle.
ReprList(parts) == <<"[">> \o ReprItems(parts) \o <<"]">>

\* Mutant: the chunk list is sent joined, without the list notation.
ChunkBundleRequest_Joined(bundle) ==
    [metadata |-> [previous |-> <<>>, label |-> "", files |-> bundle[1]],
     chunk    |-> Join(bundle[2])]

\* invoke_model(metadata, chunk) for a bundle of combine_chunks: the prompt
\* holds the metadata list and the chunk list as the f-string prints them.
ChunkBundleRequest(bundle) ==
    [metadata |-> [previous |-> <<>>, label |-> "", files |-> bundle[1]],
     chunk    |-> ReprList(bundle[2])]

\* invoke_model(metadata, chunk) for a bundle of combine_results: a label and
\* a text.
ResultBundleRequest(bundle) ==
    [metadata |-> [previous |-> <<>>, label |-> bundle[1], files |-> <<>>],
     chunk    |-> bundle[2]]

\* The sequential call: "### Previous Context:\n" + consolidated_context +
\* "\n\n### Current Context:\n" + str(metadata), str(chunk).
SequentialRequest(previous, bundle) ==
    [metadata |-> [previous |-> previous, label |-> "", files |-> bundle[1]],
     chunk    |-> ReprList(bundle[2])]

----------------------------------------------------------------------------
(* State *)

VARIABLES
    \* process_file run alone
    seg_pc,               \* "call" or "returned"
    seg_file,             \* the file process_file is called on
    seg_chunks,           \* what process_file returned
    \* an aggregator run alone
    agg_pc,               \* "call" or "returned"
    agg_fn,               \* "combine_chunks" or "combine_results"
    agg_all_chunks,       \* the argument of combine_chunks
    agg_results,          \* the argument of combine_results
    agg_combined_chunks,  \* what combine_chunks returned
    agg_combined,         \* what combine_results returned
    \* invoke_model_with_retry run alone
    rt_pc,                \* "try", "sleep", "returned" or "raised"
    attempt,              \* the loop variable of "for attempt in range(retries)"
    gw_log,               \* every call of invoke_model so far and how it ended
    sleeps,               \* every wait_time handed to time.sleep so far
    rt_response,          \* <<text>> once a text is returned
    \* main
    pc,                   \* where main is
    corpus,               \* the files found under the directory
    gw_texts,             \* the texts the gateway may answer with
    gw_fails,             \* whether an invocation may exhaust its retries
    PROCESSING_TYPE,      \* "sequential" or "parallel"
    context_chunks,       \* the bundles read_files_with_chunking returned
    in_loop,              \* process_in_batches runs from the while loop
    results,              \* the results list of process_in_batches
    combined_results,     \* what combine_results last returned
    batch_start,          \* process_in_batches's batch_start
    bpc,                  \* where process_in_batches is
    slots,                \* the invocations of the batch in the executor
    seq_i,                \* the sequential loop's position in context_chunks
    consolidated_context, \* the sequential loop's running context
    call,                 \* <<request>> of the main thread's own invocation
    responses,            \* <<text>> once ask_claude_batch has returned
    output_file,          \* <<text>> once the output file is written
    \* read_files_with_chunking, the executor of the parallel chunking
    fan_slots,            \* the process_file calls in the executor
    fan_next,             \* the position of "for chunks in results"
    all_chunks            \* read_files_with_chunking's all_chunks

segVars == <<seg_pc, seg_file, seg_chunks>>

aggVars == <<agg_pc, agg_fn, agg_all_chunks, agg_results,
             agg_combined_chunks, agg_combined>>

rtVars == <<rt_pc, attempt, gw_log, sleeps, rt_response>>

envVars == <<corpus, gw_texts, gw_fails>>

pibVars == <<in_loop, results, batch_start, bpc, slots>>

seqVars == <<seq_i, consolidated_context>>

fanVars == <<fan_slots, fan_next, all_chunks>>

mainVars == <<pc, envVars, PROCESSING_TYPE, context_chunks, combined_results,
              pibVars, seqVars, call, responses, output_file, fanVars>>

vars == <<segVars, aggVars, rtVars, mainVars>>

\* The variables of the parts a specification does not run.
SegIdle == seg_pc = "idle" /\ seg_file = UnreadableFile /\ seg_chunks = <<>>

AggIdle ==
    /\ agg_pc = "idle"
    /\ agg_fn = "none"
    /\ agg_all_chunks = <<>>
    /\ agg_results = <<>>
    /\ agg_combined_chunks = <<>>
    /\ agg_combined = <<>>

RetryIdle ==
    /\ rt_pc = "idle"
    /\ attempt = 0
    /\ gw_log = <<>>
    /\ sleeps = <<>>
    /\ rt_response = <<>>

\* main before read_files_with_chunking has run.
MainLocals ==
    /\ PROCESSING_TYPE = "undetermined"
    /\ context_chunks = <<>>
    /\ combined_results = <<>>
    /\ in_loop = FALSE
    /\ results = <<>>
    /\ batch_start = 0
    /\ bpc = "none"
    /\ slots = <<>>
    /\ seq_i = 0
    /\ consolidated_context = <<>>
    /\ call = <<>>
    /\ responses = <<>>
    /\ output_file = <<>>
    /\ fan_slots = <<>>
    /\ fan_next = 0
    /\ all_chunks = <<>>

MainIdle ==
    /\ pc = "idle"
    /\ corpus = <<>>
    /\ gw_texts = {}
    /\ gw_fails = FALSE
    /\ MainLocals

----------------------------------------------------------------------------
(* The segmenter on every file of at most MaxFileLen characters *)

SegFiles == {ReadableFile(t) : t \in Texts(MaxFileLen)} \cup {UnreadableFile}

SegInit ==
    /\ seg_pc = "call"
    /\ seg_file \in SegFiles
    /\ seg_chunks = <<>>
    /\ AggIdle /\ RetryIdle /\ MainIdle

SegCall ==
    /\ seg_pc = "call"
    /\ seg_chunks' = ProcessFile(1, seg_file)
    /\ seg_pc' = "returned"
    /\ UNCHANGED <<seg_file, aggVars, rtVars, mainVars>>

SpecSeg == SegInit /\ [][SegCall]_vars

----------------------------------------------------------------------------
(* The aggregators on the chunks of small corpora and on gateway results *)

\* The files the corpora are made of: empty, within the budget, exactly at
\* it, one line over it in characters, one line over it in words, and two
\* chunks long.
FileTexts ==
    { <<>>,
      Word(1),
      Word(1) \o <<NL>>,
      Word(1) \o <<SP>> \o Word(1) \o <<NL>>,
      Word(4) \o <<NL>>,
      Word(5) \o <<NL>>,
      Word(1) \o <<SP>> \o Word(1) \o <<SP>> \o Word(1),
      Word(2) \o <<NL>> \o Word(4) \o <<NL>> }

AggCorpora == Seqs({ReadableFile(t) : t \in FileTexts}, MaxFiles)

\* The texts a gateway call returns: empty, within the budget, exactly at it,
\* over it in characters, over it in words.
ResultTexts ==
    { <<>>,
      Word(2),
      Word(1) \o <<SP>> \o Word(1),
      Word(5),
      Word(6),
      Word(1) \o <<SP>> \o Word(1) \o <<SP>> \o Word(1) }

AggInit ==
    /\ agg_pc = "call"
    /\ \/ /\ agg_fn = "combine_chunks"
          /\ \E c \in AggCorpora : agg_all_chunks = AllChunks(c)
          /\ agg_results = <<>>
       \/ /\ agg_fn = "combine_results"
          /\ agg_all_chunks = <<>>
          /\ agg_results \in Seqs(ResultTexts, MaxResults)
    /\ agg_combined_chunks = <<>>
    /\ agg_combined = <<>>
    /\ SegIdle /\ RetryIdle /\ MainIdle

CombineChunksCall ==
    /\ agg_pc = "call"
    /\ agg_fn = "combine_chunks"
    /\ agg_combined_chunks' = CombineChunks(agg_all_chunks)
    /\ agg_pc' = "returned"
    /\ UNCHANGED <<agg_fn, agg_all_chunks, agg_results, agg_combined>>
    /\ UNCHANGED <<segVars, rtVars, mainVars>>

CombineResultsCall ==
    /\ agg_pc = "call"
    /\ agg_fn = "combine_results"
    /\ agg_combined' = CombineResults(agg_results)
    /\ agg_pc' = "returned"
    /\ UNCHANGED <<agg_fn, agg_all_chunks, agg_results, agg_combined_chunks>>
    /\ UNCHANGED <<segVars, rtVars, mainVars>>

AggNext == CombineChunksCall \/ CombineResultsCall

SpecAgg == AggInit /\ [][AggNext]_vars

----------------------------------------------------------------------------
(* combine_results on partial results that are all the same text *)

\* The texts the equal results are made of: one or two words, a text exactly
\* at the budget, texts of white space only, a text over the budget.
EqualTexts ==
    { Word(1),
      Word(2),
      Word(1) \o <<SP>> \o Word(1),
      Word(5),
      <<NL>>,
      <<SP, NL>>,
      Word(1) \o <<NL>>,
      Word(6) }

EqualInit ==
    /\ agg_pc = "call"
    /\ agg_fn = "combine_results"
    /\ agg_all_chunks = <<>>
    /\ \E n \in 1..MaxEqual : \E t \in EqualTexts :
          agg_results = [i \in 1..n |-> t]
    /\ agg_combined_chunks = <<>>
    /\ agg_combined = <<>>
    /\ SegIdle /\ RetryIdle /\ MainIdle

SpecEqual == EqualInit /\ [][CombineResultsCall]_vars

----------------------------------------------------------------------------
(* One invocation through invoke_model_with_retry *)

\* What the gateway may answer one invocation with.
RetryTexts == {<<>>, Word(2)}

RetryInit ==
    /\ rt_pc = "try"
    /\ attempt = 0
    /\ gw_log = <<>>
    /\ sleeps = <<>>
    /\ rt_response = <<>>
    /\ SegIdle /\ AggIdle /\ MainIdle

\* "return invoke_model(metadata, chunk)": the call succeeds.
RT_CallReturns ==
    /\ rt_pc = "try"
    /\ \E t \in RetryTexts :
          /\ gw_log' = Append(gw_log, [ok |-> TRUE, text |-> t])
          /\ rt_response' = <<t>>
    /\ rt_pc' = "returned"
    /\ UNCHANGED <<attempt, sleeps, segVars, aggVars, mainVars>>

\* The call raises: the handler sleeps, or re-raises on the last attempt.
RT_CallRaises ==
    /\ rt_pc = "try"
    /\ gw_log' = Append(gw_log, [ok |-> FALSE, text |-> <<>>])
    /\ IF MayRetry(attempt)
       THEN /\ \E jitter \in Jitter :
                  sleeps' = Append(sleeps, WaitTime(attempt, jitter))
            /\ rt_pc' = "sleep"
       ELSE /\ rt_pc' = "raised"
            /\ UNCHANGED sleeps
    /\ UNCHANGED <<attempt, rt_response, segVars, aggVars, mainVars>>

\* time.sleep(wait_time) returns: the next iteration of the loop.
RT_Wake ==
    /\ rt_pc = "sleep"
    /\ attempt' = attempt + 1
    /\ rt_pc' = "try"
    /\ UNCHANGED <<gw_log, sleeps, rt_response, segVars, aggVars, mainVars>>

RetryNext == RT_CallReturns \/ RT_CallRaises \/ RT_Wake

SpecRetry == RetryInit /\ [][RetryNext]_vars

----------------------------------------------------------------------------
(* main: read_files_with_chunking, ask_claude_batch, the output file *)

\* Number of requests per batch: src/main.py:427, scaled (the source has 8).
\* See the bounds.

\* The list process_in_batches is working on.
PIB_Arg == IF in_loop THEN combined_results ELSE context_chunks

\* What invoke_model_with_retry is called with for the i-th unit of that list.
PIB_Request(i) ==
    IF in_loop THEN ResultBundleRequest(combined_results[i])
    ELSE ChunkBundleRequest(context_chunks[i])

\* Mutant: the batch is everything that is left of the list.
BatchEnd_All == Len(PIB_Arg)

\* batch_end = min(batch_start + batch_size, len(context_chunks))
BatchEnd ==
    IF batch_start + BATCH_SIZE <= Len(PIB_Arg)
    THEN batch_start + BATCH_SIZE
    ELSE Len(PIB_Arg)

\* read_files_with_chunking: the totals, the mode, the chunks of every file
\* in list order, the bundles.  An unreadable file raises out of the first
\* loop, through main, and ends the process.
Main_ReadFiles ==
    /\ pc = "main"
    /\ IF AllReadable(corpus)
       THEN /\ PROCESSING_TYPE' =
                  ProcessingType(TotalChars(corpus), TotalWords(corpus))
            /\ context_chunks' = CombineChunks(AllChunks(corpus))
            /\ pc' = "ask"
       ELSE /\ pc' = "aborted"
            /\ UNCHANGED <<PROCESSING_TYPE, context_chunks>>
    /\ UNCHANGED <<envVars, combined_results, pibVars, seqVars, call,
                   responses, output_file>>
    /\ UNCHANGED <<segVars, aggVars, rtVars, fanVars>>

\* ask_claude_batch: the branch on PROCESSING_TYPE.
AskClaudeBatch ==
    /\ pc = "ask"
    /\ IF PROCESSING_TYPE = "parallel"
       THEN /\ pc' = "pib"
            /\ bpc' = "head"
            /\ UNCHANGED seq_i
       ELSE /\ pc' = "seq"
            /\ seq_i' = 1
            /\ UNCHANGED bpc
    /\ UNCHANGED <<envVars, PROCESSING_TYPE, context_chunks, combined_results,
                   in_loop, results, batch_start, slots, consolidated_context,
                   call, responses, output_file>>
    /\ UNCHANGED <<segVars, aggVars, rtVars, fanVars>>

\* process_in_batches: the batch is handed to the executor.
PIB_Submit ==
    /\ pc = "pib"
    /\ bpc = "head"
    /\ batch_start < Len(PIB_Arg)
    /\ slots' = [j \in 1..(BatchEnd - batch_start) |->
                    [st |-> "running", request |-> PIB_Request(batch_start + j),
                     text |-> <<>>]]
    /\ bpc' = "running"
    /\ UNCHANGED <<pc, envVars, PROCESSING_TYPE, context_chunks,
                   combined_results, in_loop, results, batch_start, seqVars,
                   call, responses, output_file>>
    /\ UNCHANGED <<segVars, aggVars, rtVars, fanVars>>

\* A worker's invoke_model_with_retry returns the gateway's text.
PIB_InvokeReturns(j) ==
    /\ pc = "pib"
    /\ bpc = "running"
    /\ j \in 1..Len(slots)
    /\ slots[j].st = "running"
    /\ \E t \in gw_texts :
          slots' = [slots EXCEPT ![j].st = "done", ![j].text = t]
    /\ UNCHANGED <<pc, envVars, PROCESSING_TYPE, context_chunks,
                   combined_results, in_loop, results, batch_start, bpc,
                   seqVars, call, responses, output_file>>
    /\ UNCHANGED <<segVars, aggVars, rtVars, fanVars>>

\* A worker's invoke_model_with_retry re-raises after its last attempt.
PIB_InvokeRaises(j) ==
    /\ pc = "pib"
    /\ bpc = "running"
    /\ gw_fails
    /\ j \in 1..Len(slots)
    /\ slots[j].st = "running"
    /\ slots' = [slots EXCEPT ![j].st = "raised"]
    /\ UNCHANGED <<pc, envVars, PROCESSING_TYPE, context_chunks,
                   combined_results, in_loop, results, batch_start, bpc,
                   seqVars, call, responses, output_file>>
    /\ UNCHANGED <<segVars, aggVars, rtVars, fanVars>>

\* Mutant: a worker's exception is swallowed and its text taken as empty.
PIB_Collect_SwallowRaised ==
    /\ pc = "pib"
    /\ bpc = "running"
    /\ \A j \in 1..Len(slots) : slots[j].st # "running"
    /\ slots' = <<>>
    /\ results' = results \o [j \in 1..Len(slots) |-> slots[j].text]
    /\ IF BatchEnd < Len(PIB_Arg)
       THEN bpc' = "cooldown" /\ UNCHANGED batch_start
       ELSE bpc' = "head" /\ batch_start' = BatchEnd
    /\ UNCHANGED <<pc, envVars, PROCESSING_TYPE, context_chunks,
                   combined_results, in_loop, seqVars, call, responses,
                   output_file>>
    /\ UNCHANGED <<segVars, aggVars, rtVars, fanVars>>

\* The executor is left with every worker finished: the batch's results are
\* taken in input order, or the first exception is raised out of main.
PIB_Collect ==
    /\ pc = "pib"
    /\ bpc = "running"
    /\ \A j \in 1..Len(slots) : slots[j].st # "running"
    /\ slots' = <<>>
    /\ IF \E j \in 1..Len(slots) : slots[j].st = "raised"
       THEN /\ pc' = "aborted"
            /\ bpc' = "none"
            /\ UNCHANGED <<results, batch_start>>
       ELSE /\ results' = results \o [j \in 1..Len(slots) |-> slots[j].text]
            /\ IF BatchEnd < Len(PIB_Arg)
               THEN bpc' = "cooldown" /\ UNCHANGED batch_start
               ELSE bpc' = "head" /\ batch_start' = BatchEnd
            /\ UNCHANGED pc
    /\ UNCHANGED <<envVars, PROCESSING_TYPE, context_chunks, combined_results,
                   in_loop, seqVars, call, responses, output_file>>
    /\ UNCHANGED <<segVars, aggVars, rtVars, fanVars>>

\* time.sleep(time_window) returns; batch_start = batch_end.
PIB_Cooldown ==
    /\ pc = "pib"
    /\ bpc = "cooldown"
    /\ batch_start' = BatchEnd
    /\ bpc' = "head"
    /\ UNCHANGED <<pc, envVars, PROCESSING_TYPE, context_chunks,
                   combined_results, in_loop, results, slots, seqVars, call,
                   responses, output_file>>
    /\ UNCHANGED <<segVars, aggVars, rtVars, fanVars>>

\* process_in_batches returns its results and combine_results packs them.
Combine ==
    /\ pc = "pib"
    /\ bpc = "head"
    /\ batch_start >= Len(PIB_Arg)
    /\ combined_results' = CombineResults(results)
    /\ pc' = "while"
    /\ bpc' = "none"
    /\ UNCHANGED <<envVars, PROCESSING_TYPE, context_chunks, in_loop, results,
                   batch_start, slots, seqVars, call, responses, output_file>>
    /\ UNCHANGED <<segVars, aggVars, rtVars, fanVars>>

\* Mutant: the loop is left as soon as there is a bundle at all.
While_UntilAny ==
    /\ pc = "while"
    /\ Len(combined_results) <= MaxBundles
    /\ IF Len(combined_results) = 0
       THEN /\ pc' = "pib"
            /\ in_loop' = TRUE
            /\ results' = <<>>
            /\ batch_start' = 0
            /\ bpc' = "head"
            /\ UNCHANGED call
       ELSE /\ pc' = "final"
            /\ call' = <<ResultBundleRequest(combined_results[1])>>
            /\ UNCHANGED <<in_loop, results, batch_start, bpc>>
    /\ UNCHANGED <<envVars, PROCESSING_TYPE, context_chunks, combined_results,
                   slots, seqVars, responses, output_file>>
    /\ UNCHANGED <<segVars, aggVars, rtVars, fanVars>>

\* "while len(combined_results) != 1": another round of process_in_batches
\* on the bundles, or the final invocation on the only one.
While ==
    /\ pc = "while"
    /\ Len(combined_results) <= MaxBundles
    /\ IF Len(combined_results) # 1
       THEN /\ pc' = "pib"
            /\ in_loop' = TRUE
            /\ results' = <<>>
            /\ batch_start' = 0
            /\ bpc' = "head"
            /\ UNCHANGED call
       ELSE /\ pc' = "final"
            /\ call' = <<ResultBundleRequest(combined_results[1])>>
            /\ UNCHANGED <<in_loop, results, batch_start, bpc>>
    /\ UNCHANGED <<envVars, PROCESSING_TYPE, context_chunks, combined_results,
                   slots, seqVars, responses, output_file>>
    /\ UNCHANGED <<segVars, aggVars, rtVars, fanVars>>

\* The final invocation returns: ask_claude_batch returns its text.
Final_Returns ==
    /\ pc = "final"
    /\ \E t \in gw_texts : responses' = <<t>>
    /\ call' = <<>>
    /\ pc' = "write"
    /\ UNCHANGED <<envVars, PROCESSING_TYPE, context_chunks, combined_results,
                   pibVars, seqVars, output_file>>
    /\ UNCHANGED <<segVars, aggVars, rtVars, fanVars>>

\* The sequential loop calls invoke_model_with_retry on the next bundle.
Seq_Invoke ==
    /\ pc = "seq"
    /\ call = <<>>
    /\ seq_i <= Len(context_chunks)
    /\ call' = <<SequentialRequest(consolidated_context, context_chunks[seq_i])>>
    /\ UNCHANGED <<pc, envVars, PROCESSING_TYPE, context_chunks,
                   combined_results, pibVars, seqVars, responses, output_file>>
    /\ UNCHANGED <<segVars, aggVars, rtVars, fanVars>>

\* Mutant: the running context accumulates every response.
Seq_Returns_Accumulate ==
    /\ pc = "seq"
    /\ call # <<>>
    /\ \E t \in gw_texts : consolidated_context' = consolidated_context \o t
    /\ seq_i' = seq_i + 1
    /\ call' = <<>>
    /\ UNCHANGED <<pc, envVars, PROCESSING_TYPE, context_chunks,
                   combined_results, pibVars, responses, output_file>>
    /\ UNCHANGED <<segVars, aggVars, rtVars, fanVars>>

\* consolidated_context = response_text
Seq_Returns ==
    /\ pc = "seq"
    /\ call # <<>>
    /\ \E t \in gw_texts : consolidated_context' = t
    /\ seq_i' = seq_i + 1
    /\ call' = <<>>
    /\ UNCHANGED <<pc, envVars, PROCESSING_TYPE, context_chunks,
                   combined_results, pibVars, responses, output_file>>
    /\ UNCHANGED <<segVars, aggVars, rtVars, fanVars>>

\* The loop is over: final_response = consolidated_context is returned.
Seq_Done ==
    /\ pc = "seq"
    /\ call = <<>>
    /\ seq_i > Len(context_chunks)
    /\ responses' = <<consolidated_context>>
    /\ pc' = "write"
    /\ UNCHANGED <<envVars, PROCESSING_TYPE, context_chunks, combined_results,
                   pibVars, seqVars, call, output_file>>
    /\ UNCHANGED <<segVars, aggVars, rtVars, fanVars>>

\* The main thread's own invocation (a sequential call, the final call)
\* re-raises after its last attempt: the exception leaves main.
Call_Raises ==
    /\ pc \in {"seq", "final"}
    /\ call # <<>>
    /\ gw_fails
    /\ call' = <<>>
    /\ pc' = "aborted"
    /\ UNCHANGED <<envVars, PROCESSING_TYPE, context_chunks, combined_results,
                   pibVars, seqVars, responses, output_file>>
    /\ UNCHANGED <<segVars, aggVars, rtVars, fanVars>>

\* main writes the responses to the output file.
Main_Write ==
    /\ pc = "write"
    /\ output_file' = responses
    /\ pc' = "done"
    /\ UNCHANGED <<envVars, PROCESSING_TYPE, context_chunks, combined_results,
                   pibVars, seqVars, call, responses>>
    /\ UNCHANGED <<segVars, aggVars, rtVars, fanVars>>

\* The corpora main is run on.
File1 == ReadableFile(Word(1) \o <<NL>>)
File5 == ReadableFile(Word(4) \o <<NL>>)
File6 == ReadableFile(Word(5) \o <<NL>>)
File10 == ReadableFile(Word(4) \o <<NL>> \o Word(4) \o <<NL>>)
TwoWords == Word(1) \o <<SP>> \o Word(1) \o <<NL>>
FileWords == ReadableFile(TwoWords \o TwoWords \o TwoWords \o Word(1) \o <<NL>>)

MainCorpora ==
    { <<>>,
      <<File1>>,
      <<File5>>,
      <<File5, File5, File5>>,
      <<File10, File10>>,
      <<File5, File10, File1>>,
      <<File6, File5, File5>>,
      <<FileWords>>,
      <<File5, UnreadableFile>> }

\* The gateways main is run against: the texts a call may return.
Gateways ==
    { {Word(2), Word(5)},
      {<<>>, Word(2)},
      {Word(2), Word(6)} }

Init ==
    /\ pc = "main"
    /\ corpus \in MainCorpora
    /\ gw_texts \in Gateways
    /\ gw_fails \in BOOLEAN
    /\ MainLocals
    /\ SegIdle /\ AggIdle /\ RetryIdle

\* The steps of ask_claude_batch and of main after it.
AskNext ==
    \/ AskClaudeBatch
    \/ PIB_Submit
    \/ \E j \in 1..BATCH_SIZE : PIB_InvokeReturns(j)
    \/ \E j \in 1..BATCH_SIZE : PIB_InvokeRaises(j)
    \/ PIB_Collect
    \/ PIB_Cooldown
    \/ Combine
    \/ While
    \/ Final_Returns
    \/ Seq_Invoke
    \/ Seq_Returns
    \/ Seq_Done
    \/ Call_Raises
    \/ Main_Write

Next == Main_ReadFiles \/ AskNext

Spec == Init /\ [][Next]_vars

\* main from the call of ask_claude_batch on: read_files_with_chunking has
\* returned the bundles and the mode of one of the corpora.
AskInit ==
    /\ pc = "ask"
    /\ corpus \in {c \in MainCorpora : AllReadable(c)}
    /\ gw_texts \in Gateways
    /\ gw_fails \in BOOLEAN
    /\ PROCESSING_TYPE = ProcessingType(TotalChars(corpus), TotalWords(corpus))
    /\ context_chunks = CombineChunks(AllChunks(corpus))
    /\ combined_results = <<>>
    /\ in_loop = FALSE
    /\ results = <<>>
    /\ batch_start = 0
    /\ bpc = "none"
    /\ slots = <<>>
    /\ seq_i = 0
    /\ consolidated_context = <<>>
    /\ call = <<>>
    /\ responses = <<>>
    /\ output_file = <<>>
    /\ fan_slots = <<>>
    /\ fan_next = 0
    /\ all_chunks = <<>>
    /\ SegIdle /\ AggIdle /\ RetryIdle

\* The run does not stop while a step can be taken: threads run, calls and
\* sleeps return.  The only cycle of ask_claude_batch is the while loop, and
\* every round of it takes every step that is enabled in it, so a run that is
\* fair in this sense is fair to each step as well.
FairSpec == AskInit /\ [][AskNext]_vars /\ WF_vars(AskNext)

----------------------------------------------------------------------------
(* The parallel mode with the workers of the file-level executor interleaved *)

\* executor.map(process_file, file_paths): every file is handed to the pool.
Fan_Submit ==
    /\ pc = "fan"
    /\ fan_next = 0
    /\ fan_slots' = [i \in 1..Len(corpus) |-> [st |-> "running", chunks |-> <<>>]]
    /\ fan_next' = 1
    /\ UNCHANGED <<pc, envVars, PROCESSING_TYPE, context_chunks,
                   combined_results, pibVars, seqVars, call, responses,
                   output_file, all_chunks>>
    /\ UNCHANGED <<segVars, aggVars, rtVars>>

\* Mutant: a worker that finishes takes the first free place of the results.
Fan_WorkerDone_FirstFree(i) ==
    /\ pc = "fan"
    /\ i \in 1..Len(fan_slots)
    /\ \E k \in 1..Len(fan_slots) :
          /\ fan_slots[k].st = "running"
          /\ \A h \in 1..(k - 1) : fan_slots[h].st # "running"
          /\ fan_slots' = [fan_slots EXCEPT
                              ![k] = [st |-> "done",
                                      chunks |-> ProcessFile(i, corpus[i])]]
    /\ UNCHANGED <<pc, envVars, PROCESSING_TYPE, context_chunks,
                   combined_results, pibVars, seqVars, call, responses,
                   output_file, fan_next, all_chunks>>
    /\ UNCHANGED <<segVars, aggVars, rtVars>>

\* The worker of the i-th file returns from process_file, whatever the
\* others are doing.
Fan_WorkerDone(i) ==
    /\ pc = "fan"
    /\ i \in 1..Len(fan_slots)
    /\ fan_slots[i].st = "running"
    /\ fan_slots' = [fan_slots EXCEPT
                        ![i] = [st |-> "done",
                                chunks |-> ProcessFile(i, corpus[i])]]
    /\ UNCHANGED <<pc, envVars, PROCESSING_TYPE, context_chunks,
                   combined_results, pibVars, seqVars, call, responses,
                   output_file, fan_next, all_chunks>>
    /\ UNCHANGED <<segVars, aggVars, rtVars>>

\* "for chunks in results: all_chunks.extend(chunks)": the iterator of
\* executor.map yields the next file's result once its worker has returned.
Fan_Take ==
    /\ pc = "fan"
    /\ fan_next \in 1..Len(fan_slots)
    /\ fan_slots[fan_next].st = "done"
    /\ all_chunks' = all_chunks \o fan_slots[fan_next].chunks
    /\ fan_next' = fan_next + 1
    /\ UNCHANGED <<pc, envVars, PROCESSING_TYPE, context_chunks,
                   combined_results, pibVars, seqVars, call, responses,
                   output_file, fan_slots>>
    /\ UNCHANGED <<segVars, aggVars, rtVars>>

\* The results are exhausted: combine_chunks(all_chunks) and the return.
Fan_Combine ==
    /\ pc = "fan"
    /\ fan_next > Len(fan_slots)
    /\ fan_next > 0
    /\ context_chunks' = CombineChunks(all_chunks)
    /\ pc' = "ask"
    /\ UNCHANGED <<envVars, PROCESSING_TYPE, combined_results, pibVars,
                   seqVars, call, responses, output_file, fanVars>>
    /\ UNCHANGED <<segVars, aggVars, rtVars>>

\* read_files_with_chunking has found the mode to be parallel.
ParInit ==
    /\ pc = "fan"
    /\ corpus \in {c \in MainCorpora :
                      /\ AllReadable(c)
                      /\ ProcessingType(TotalChars(c), TotalWords(c)) = "parallel"}
    /\ gw_texts \in Gateways
    /\ gw_fails \in BOOLEAN
    /\ PROCESSING_TYPE = "parallel"
    /\ context_chunks = <<>>
    /\ combined_results = <<>>
    /\ in_loop = FALSE
    /\ results = <<>>
    /\ batch_start = 0
    /\ bpc = "none"
    /\ slots = <<>>
    /\ seq_i = 0
    /\ consolidated_context = <<>>
    /\ call = <<>>
    /\ responses = <<>>
    /\ output_file = <<>>
    /\ fan_slots = <<>>
    /\ fan_next = 0
    /\ all_chunks = <<>>
    /\ SegIdle /\ AggIdle /\ RetryIdle

ParNext ==
    \/ Fan_Submit
    \/ \E i \in 1..MaxFiles : Fan_WorkerDone(i)
    \/ Fan_Take
    \/ Fan_Combine
    \/ AskClaudeBatch
    \/ PIB_Submit
    \/ \E j \in 1..BATCH_SIZE : PIB_InvokeReturns(j)
    \/ \E j \in 1..BATCH_SIZE : PIB_InvokeRaises(j)
    \/ PIB_Collect
    \/ PIB_Cooldown
    \/ Combine
    \/ While
    \/ Final_Returns
    \/ Call_Raises
    \/ Main_Write

SpecPar == ParInit /\ [][ParNext]_vars

----------------------------------------------------------------------------
(* read_files_with_chunking on every corpus of at most MaxFiles files *)

ReadCorpora ==
    Seqs({ReadableFile(t) : t \in FileTexts} \cup {UnreadableFile}, MaxFiles)

ReadInit ==
    /\ pc = "main"
    /\ corpus \in ReadCorpora
    /\ gw_texts = {}
    /\ gw_fails = FALSE
    /\ MainLocals
    /\ SegIdle /\ AggIdle /\ RetryIdle

SpecRead == ReadInit /\ [][Main_ReadFiles]_vars

----------------------------------------------------------------------------
(* Claims about process_file *)

\* C1: every chunk process_file returns is within the effective budget in
\* characters and in words, unless it consists of exactly one line of the
\* file and that line alone is over the budget.
C1_ChunksWithinBudget ==
    seg_pc = "returned" =>
        \A i \in 1..Len(seg_chunks) :
            LET t == seg_chunks[i][2]
            IN  \/ (Len(t) <= MAX_CHARS /\ WordCount(t) <= MAX_WORDS)
                \/ /\ Len(ReadLines(t)) = 1
                   /\ \E j \in 1..Len(ReadLines(seg_file.text)) :
                          ReadLines(seg_file.text)[j] = t

\* A file of several lines was cut into more than one chunk, one of them a
\* single over-budget line and one of them several lines within the budget.
C1_Witness ==
    /\ seg_pc = "returned"
    /\ Len(seg_chunks) >= 2
    /\ \E i \in 1..Len(seg_chunks) : ~Fits(seg_chunks[i][2])
    /\ \E i \in 1..Len(seg_chunks) :
          Fits(seg_chunks[i][2]) /\ Len(ReadLines(seg_chunks[i][2])) >= 2

\* C2: the chunk texts, concatenated in list order, are the file's text: its
\* lines in order, none dropped, duplicated, split or reordered.
C2_ChunksPartitionFile ==
    (seg_pc = "returned" /\ seg_file.readable) =>
        /\ Join(ChunkTexts(seg_chunks)) = seg_file.text
        /\ Join([i \in 1..Len(seg_chunks) |-> ReadLines(seg_chunks[i][2])])
              = ReadLines(seg_file.text)

\* A file of at least three lines came back as at least two chunks.
C2_Witness ==
    /\ seg_pc = "returned"
    /\ Len(ReadLines(seg_file.text)) >= 3
    /\ Len(seg_chunks) >= 2

\* C9 as stated: a file whose totals are within the effective budget comes
\* back as exactly one chunk.
C9_Original ==
    (seg_pc = "returned" /\ seg_file.readable /\ Fits(seg_file.text)) =>
        Len(seg_chunks) = 1

\* C9 as amended: a file that is not empty and whose totals are within the
\* effective budget comes back as exactly one chunk, the whole file; an empty
\* file comes back as no chunk.
C9_OneChunkIfNotEmpty ==
    (seg_pc = "returned" /\ seg_file.readable /\ Fits(seg_file.text)) =>
        IF seg_file.text = <<>>
        THEN seg_chunks = <<>>
        ELSE /\ Len(seg_chunks) = 1
             /\ seg_chunks[1][2] = seg_file.text

\* A file of several lines, its totals exactly at the budget in characters,
\* came back as one chunk.
C9_Witness ==
    /\ seg_pc = "returned"
    /\ seg_file.readable
    /\ Len(seg_file.text) = MAX_CHARS
    /\ WordCount(seg_file.text) <= MAX_WORDS
    /\ Len(ReadLines(seg_file.text)) >= 2
    /\ Len(seg_chunks) = 1

----------------------------------------------------------------------------
(* Claims about the aggregators *)

\* The bundles are runs of the units, in order: each bundle's text is the
\* concatenation of the next run of units, a run of more than one unit is
\* within the budget in summed characters and words, and the units after the
\* last bundle are empty texts (they have nothing to appear in a bundle).
RECURSIVE CR_RunsOf(_, _)
CR_RunsOf(bundles, units) ==
    IF bundles = <<>>
    THEN \A i \in 1..Len(units) : units[i] = <<>>
    ELSE \E k \in 0..Len(units) :
            LET run == SubSeq(units, 1, k)
            IN  /\ Head(bundles)[2] = Join(run)
                /\ \/ k = 1 /\ ~Fits(run[1])
                   \/ SumChars(run) <= MAX_CHARS /\ SumWords(run) <= MAX_WORDS
                /\ CR_RunsOf(Tail(bundles), SubSeq(units, k + 1, Len(units)))

\* C3: in both aggregators no bundle's summed character or word count is over
\* the effective budget unless the bundle holds one unit that alone is over
\* it, and the units are in the bundles in input order, none dropped or
\* split.  combine_chunks bundles are lists of units; combine_results bundles
\* are texts, so its units are followed as the runs of text they make up.
C3_BundlesWithinBudgetInOrder ==
    agg_pc = "returned" =>
        IF agg_fn = "combine_chunks"
        THEN LET B == agg_combined_chunks
             IN  /\ Join([j \in 1..Len(B) |-> B[j][2]]) = ChunkTexts(agg_all_chunks)
                 /\ Join([j \in 1..Len(B) |-> B[j][1]])
                       = [i \in 1..Len(agg_all_chunks) |-> agg_all_chunks[i][1]]
                 /\ \A j \in 1..Len(B) :
                       /\ Len(B[j][1]) = Len(B[j][2])
                       /\ \/ Len(B[j][2]) = 1 /\ ~Fits(B[j][2][1])
                          \/ /\ SumChars(B[j][2]) <= MAX_CHARS
                             /\ SumWords(B[j][2]) <= MAX_WORDS
        ELSE /\ CR_RunsOf(agg_combined, agg_results)
             /\ Join([j \in 1..Len(agg_combined) |-> agg_combined[j][2]])
                   = Join(agg_results)

\* combine_results returned a bundle of two results followed by a bundle of
\* one result that alone is over the budget.
C3_Witness ==
    /\ agg_pc = "returned"
    /\ agg_fn = "combine_results"
    /\ Len(agg_results) = 3
    /\ Len(agg_combined) = 2
    /\ agg_combined[1][2] = agg_results[1] \o agg_results[2]
    /\ agg_results[1] # <<>> /\ agg_results[2] # <<>>
    /\ ~Fits(agg_combined[2][2])

\* C6 as stated: for a non-empty input of n results, combine_results returns
\* at least 1 and at most n bundles.
C6_Original ==
    (agg_pc = "returned" /\ agg_fn = "combine_results" /\ agg_results # <<>>) =>
        /\ Len(agg_combined) >= 1
        /\ Len(agg_combined) <= Len(agg_results)

----------------------------------------------------------------------------
(* Claims about invoke_model_with_retry *)

\* The failed calls of the gateway so far.
RT_Failures == {i \in 1..Len(gw_log) : ~gw_log[i].ok}

\* C10: an invocation whose gateway call fails k < 10 times and then succeeds
\* calls the gateway exactly k+1 times, returns the successful text, and
\* sleeps exactly k times, the sleep after the i-th failure (from 0) being
\* 30 * 2^i plus a jitter in [5,10].
C10_RetryThenSucceed ==
    rt_pc = "returned" =>
        LET k == Cardinality(RT_Failures)
        IN  /\ k < 10
            /\ Len(gw_log) = k + 1
            /\ RT_Failures = 1..k
            /\ gw_log[k + 1].ok
            /\ rt_response = <<gw_log[k + 1].text>>
            /\ Len(sleeps) = k
            /\ \A i \in 0..(k - 1) :
                  /\ sleeps[i + 1] - 30 * (2 ^ i) >= 5
                  /\ sleeps[i + 1] - 30 * (2 ^ i) <= 10

\* The gateway failed nine times and the tenth call's text was returned.
C10_Witness ==
    /\ rt_pc = "returned"
    /\ Cardinality(RT_Failures) = 9
    /\ Len(gw_log) = 10
    /\ Len(sleeps) = 9
    /\ rt_response = <<Word(2)>>

----------------------------------------------------------------------------
(* Claims about read_files_with_chunking *)

\* The texts of the corpus, file by file.
CorpusTexts == [i \in 1..Len(corpus) |-> corpus[i].text]

\* C8: the mode is "sequential" exactly when the corpus's total characters
\* are at most CHUNK_LIMIT times the effective character budget and its total
\* words at most CHUNK_LIMIT times the effective word budget, and "parallel"
\* otherwise: it is a function of the two totals.
C8_ModeByTotals ==
    pc = "ask" =>
        LET total_chars == Len(Join(CorpusTexts))
            total_words == SumWords(CorpusTexts)
            within == /\ total_chars <= CHUNK_LIMIT * MAX_CHARS
                      /\ total_words <= CHUNK_LIMIT * MAX_WORDS
        IN  /\ PROCESSING_TYPE \in {"sequential", "parallel"}
            /\ PROCESSING_TYPE = "sequential" <=> within

\* A corpus whose characters are exactly at the limit and whose words are
\* over it was given the parallel mode.
C8_Witness ==
    /\ pc = "ask"
    /\ PROCESSING_TYPE = "parallel"
    /\ Len(Join(CorpusTexts)) = CHUNK_LIMIT * MAX_CHARS
    /\ SumWords(CorpusTexts) > CHUNK_LIMIT * MAX_WORDS

----------------------------------------------------------------------------
(* Claims about ask_claude_batch *)

\* The requests that are with the gateway.
InFlight ==
    {slots[j].request : j \in {k \in 1..Len(slots) : slots[k].st = "running"}}
        \cup {call[k] : k \in 1..Len(call)}

\* No line of the corpus alone is over the effective budget.
NoLineOverBudget ==
    \A i \in 1..Len(corpus) :
        \A k \in 1..Len(ReadLines(corpus[i].text)) :
            Fits(ReadLines(corpus[i].text)[k])

\* No text the gateway returns is alone over the effective budget.
NoResultOverBudget == \A t \in gw_texts : Fits(t)

\* C4 as stated: in parallel mode, with a non-empty bundle list and a gateway
\* whose every call succeeds with a text that fits the budget,
\* ask_claude_batch leaves the reduce loop in the end and returns one final
\* document.
C4_Original ==
    [](( /\ pc = "pib"
         /\ ~in_loop
         /\ context_chunks # <<>>
         /\ ~gw_fails
         /\ NoResultOverBudget )
       => <>(pc = "write" /\ Len(responses) = 1))

\* C5 as stated: a cycle of the reduce loop that starts with more than one
\* bundle, and whose results each fit the budget, ends with fewer bundles than
\* it started with.
C5_Original ==
    [][( /\ pc = "pib"
         /\ in_loop
         /\ pc' = "while"
         /\ Len(combined_results) > 1
         /\ \A i \in 1..Len(results) : Fits(results[i]) )
       => Len(combined_results') < Len(combined_results)]_vars

\* C7 as stated: when no line of the corpus and no gateway result alone is
\* over the effective budget, the content of every request sent to the
\* gateway, with the instruction prompt added, is within DEFAULT_MAX_CHARS
\* and DEFAULT_MAX_WORDS.
C7_Original ==
    (NoLineOverBudget /\ NoResultOverBudget) =>
        \A r \in InFlight :
            /\ Len(r.chunk) + INSTRUCTION_CHARS <= DEFAULT_MAX_CHARS
            /\ WordCount(r.chunk) + INSTRUCTION_WORDS <= DEFAULT_MAX_WORDS

----------------------------------------------------------------------------
(* Claims about the exhaustion of the retries *)

\* C11: one invocation through invoke_model_with_retry never calls the
\* gateway more than 10 times; when all 10 attempts have failed the 10th
\* failure is re-raised with no sleep after it (9 sleeps for 10 failures) and
\* no text is returned.
C11_AtMostTenCallsThenRaise ==
    /\ Len(gw_log) <= 10
    /\ rt_pc = "raised" =>
          /\ Len(gw_log) = 10
          /\ RT_Failures = 1..10
          /\ Len(sleeps) = 9
          /\ rt_response = <<>>
    /\ rt_pc = "returned" => rt_response # <<>>

\* All ten attempts failed and the invocation raised.
C11_Witness ==
    /\ rt_pc = "raised"
    /\ Len(gw_log) = 10
    /\ Cardinality(RT_Failures) = 10
    /\ Len(sleeps) = 9

\* An invocation of this run has exhausted its retries: a worker of the
\* batch has re-raised, or the exception has left main.
Exhausted ==
    \/ \E j \in 1..Len(slots) : slots[j].st = "raised"
    \/ (pc = "aborted" /\ AllReadable(corpus))

\* C12: once an invocation has exhausted its retries the run aborts: no
\* request is started any more (no later batch, no reduction round, no final
\* call, no sequential call) and the output file is never written.
C12_AbortAfterExhaustion ==
    [][Exhausted =>
          /\ Exhausted'
          /\ pc' \in {pc, "aborted"}
          /\ bpc' \in {bpc, "none"}
          /\ batch_start' = batch_start
          /\ in_loop' = in_loop
          /\ combined_results' = combined_results
          /\ call' = <<>>
          /\ responses' = <<>>
          /\ output_file' = <<>>
          /\ \A j \in 1..Len(slots') :
                slots'[j].st = "running" =>
                    (j <= Len(slots) /\ slots[j].st = "running")]_vars

\* The run was aborted by an exhausted invocation of a later batch, after the
\* results of an earlier batch had been collected.
C12_Witness ==
    /\ pc = "aborted"
    /\ gw_fails
    /\ Len(results) >= 1
    /\ output_file = <<>>

----------------------------------------------------------------------------
(* Claims about unreadable files *)

\* C13 as stated: when a file of the corpus cannot be read the run does not
\* abort: read_files_with_chunking returns, the file contributes no chunk and
\* the bundles are those of the chunks of the other files.
C13_Original ==
    (pc # "main" /\ ~AllReadable(corpus)) =>
        /\ pc # "aborted"
        /\ context_chunks = CombineChunks(AllChunks(corpus))

----------------------------------------------------------------------------
(* Claims about the packing of the aggregators *)

\* How many copies of the text t fit the effective budget together:
\* floor(budget / size), over characters and words.
PerBundle(t) ==
    LET fit == {j \in 0..MAX_CHARS :
                   /\ j * Len(t) <= MAX_CHARS
                   /\ j * WordCount(t) <= MAX_WORDS}
    IN  CHOOSE j \in fit : \A i \in fit : i <= j

\* ceil(n / k)
CeilDiv(n, k) == (n + k - 1) \div k

\* C14: for n partial results of the same size s with k = floor(budget / s)
\* at least 1, combine_results returns exactly ceil(n / k) bundles, and each
\* of them but the last holds k results.
C14_EqualResultsPacked ==
    (agg_pc = "returned" /\ agg_fn = "combine_results" /\ agg_results # <<>>) =>
        LET n == Len(agg_results)
            t == agg_results[1]
            k == PerBundle(t)
        IN  ((\A i \in 1..n : agg_results[i] = t) /\ Len(t) > 0 /\ k >= 1) =>
                /\ Len(agg_combined) = CeilDiv(n, k)
                /\ \A j \in 1..(CeilDiv(n, k) - 1) :
                      agg_combined[j][2] = Join([i \in 1..k |-> t])
                /\ agg_combined[CeilDiv(n, k)][2]
                      = Join([i \in 1..(n - k * (CeilDiv(n, k) - 1)) |-> t])

\* Ten equal results, two of which fit the budget together, were packed in
\* five bundles.
C14_Witness ==
    /\ agg_pc = "returned"
    /\ Len(agg_results) = 10
    /\ \A i \in 1..10 : agg_results[i] = agg_results[1]
    /\ PerBundle(agg_results[1]) = 2
    /\ Len(agg_combined) = 5

\* The order-preserving partitions of n units into consecutive groups, each
\* given by the set of the positions after which a group ends.
Cuts(n) == SUBSET (1..(n - 1))

\* The groups of the partition with the cuts C: pairs <<first, last>>.
Groups(n, C) ==
    {<<a, CHOOSE b \in (C \cup {n}) :
              b >= a /\ \A c \in (C \cup {n}) : c >= a => b <= c>> :
        a \in {1} \cup {c + 1 : c \in C}}

\* Every group of the partition fits the effective budget in summed
\* characters and words.
PartitionFits(texts, C) ==
    \A g \in Groups(Len(texts), C) :
        /\ SumChars(SubSeq(texts, g[1], g[2])) <= MAX_CHARS
        /\ SumWords(SubSeq(texts, g[1], g[2])) <= MAX_WORDS

\* C15: when every unit alone fits the effective budget, combine_chunks
\* returns the least number of bundles of any order-preserving partition of
\* the units into consecutive groups that each fit the budget.
C15_FewestBundles ==
    (/\ agg_pc = "returned"
     /\ agg_fn = "combine_chunks"
     /\ agg_all_chunks # <<>>
     /\ \A i \in 1..Len(agg_all_chunks) : Fits(agg_all_chunks[i][2])) =>
        LET texts == ChunkTexts(agg_all_chunks)
            n     == Len(texts)
        IN  /\ \E C \in Cuts(n) :
                  /\ PartitionFits(texts, C)
                  /\ Cardinality(C) + 1 = Len(agg_combined_chunks)
            /\ \A C \in Cuts(n) :
                  PartitionFits(texts, C) =>
                      Cardinality(C) + 1 >= Len(agg_combined_chunks)

\* Three units that each fit were packed in two bundles, one of them of two
\* units.
C15_Witness ==
    /\ agg_pc = "returned"
    /\ agg_fn = "combine_chunks"
    /\ Len(agg_all_chunks) = 3
    /\ \A i \in 1..3 : Fits(agg_all_chunks[i][2])
    /\ Len(agg_combined_chunks) = 2
    /\ \E j \in 1..2 : Len(agg_combined_chunks[j][2]) = 2

----------------------------------------------------------------------------
(* Claims about the executors *)

\* The chunk list holds the chunks of the files taken so far, file by file
\* in the order of the corpus, as the sequential chunking gives them.
FanInOrder ==
    /\ (pc = "fan" /\ fan_next >= 1) =>
          all_chunks = AllChunks(SubSeq(corpus, 1, fan_next - 1))
    /\ pc \in {"ask", "pib", "while", "final", "write", "done"} =>
          /\ all_chunks = AllChunks(corpus)
          /\ context_chunks = CombineChunks(AllChunks(corpus))

\* The step that takes the results of a batch out of the executor adds, for
\* every unit of the batch in list order, the text the gateway gave the
\* worker that was called with that unit.
BatchInOrder ==
    (pc = "pib" /\ bpc = "running" /\ bpc' # "running" /\ pc' = "pib") =>
        /\ Len(results) = batch_start
        /\ Len(results') = batch_start + Len(slots)
        /\ SubSeq(results', 1, Len(results)) = results
        /\ \A j \in 1..Len(slots) :
              /\ slots[j].request = PIB_Request(batch_start + j)
              /\ results'[batch_start + j] = slots[j].text

\* C16: in both fan-outs, whatever the order in which the workers finish, the
\* collected list is in input order: the chunk list is the one the
\* sequential per-file chunking produces, and the i-th partial result is the
\* gateway's response to the i-th bundle.
C16_CollectedInInputOrder == []FanInOrder /\ [][BatchInOrder]_vars

\* The chunks of several files have been collected, two different texts have
\* been collected from an earlier batch, and in the running batch the second
\* worker has finished before the first.
C16_Witness ==
    /\ pc = "pib"
    /\ Len(fan_slots) >= 2
    /\ all_chunks = AllChunks(corpus)
    /\ Len(results) >= 2
    /\ results[1] # results[2]
    /\ Len(slots) >= 2
    /\ slots[1].st = "running"
    /\ slots[2].st = "done"

\* The worker of the second file has returned before the worker of the first.
C16_FilesOutOfOrder ==
    /\ pc = "fan"
    /\ Len(fan_slots) >= 2
    /\ fan_slots[1].st = "running"
    /\ fan_slots[2].st = "done"
    /\ fan_slots[2].chunks # <<>>

\* The workers of the executor that are inside invoke_model_with_retry.
Running == {j \in 1..Len(slots) : slots[j].st = "running"}

\* C17: in parallel mode at most BATCH_SIZE gateway invocations are in flight
\* at any moment, all of them for units of one and the same batch of the
\* list; the final consolidation call runs with no other invocation in
\* flight.
C17_OneBatchInFlight ==
    PROCESSING_TYPE = "parallel" =>
        /\ Cardinality(Running) + Len(call) <= BATCH_SIZE
        /\ Running # {} =>
              /\ pc = "pib"
              /\ call = <<>>
              /\ batch_start % BATCH_SIZE = 0
              /\ \A j \in Running :
                    /\ batch_start + j <= BatchEnd
                    /\ BatchEnd <= batch_start + BATCH_SIZE
                    /\ slots[j].request = PIB_Request(batch_start + j)
        /\ call # <<>> =>
              /\ pc = "final"
              /\ Len(call) = 1
              /\ Running = {}
              /\ Len(combined_results) = 1

\* A full batch is in flight, and it is not the first batch of its list.
C17_Witness ==
    /\ PROCESSING_TYPE = "parallel"
    /\ pc = "pib"
    /\ batch_start > 0
    /\ Cardinality(Running) = BATCH_SIZE

----------------------------------------------------------------------------
(* Claims about the pacing of the batches *)

\* process_in_batches has taken the results of a batch and goes on without
\* sleeping the cooldown: the batch was the last of its list.
BatchDoneNoCooldown ==
    /\ pc = "pib"
    /\ bpc = "head"
    /\ results # <<>>
    /\ batch_start >= Len(PIB_Arg)

\* C18 as stated: over the whole run, all reduction rounds included, the
\* cooldown is slept only once every request of the batch has completed, and
\* no request of a batch is started unless the cooldown has been slept after
\* the preceding batch: a batch that is not followed by a cooldown is the
\* last batch of the run, and no batch is started after it.
C18_Original ==
    /\ [](bpc = "cooldown" => Running = {})
    /\ [](BatchDoneNoCooldown => [](bpc # "running"))

----------------------------------------------------------------------------
(* Claims about the sequential mode *)

\* In sequential mode nothing is batched and at most one invocation is in
\* flight; the invocation in flight is for the bundle at the loop's position,
\* with the running context as its previous context, which is empty for the
\* first bundle; what is returned in the end is the running context after
\* the last bundle.
SeqOneAtATime ==
    PROCESSING_TYPE = "sequential" =>
        /\ slots = <<>> /\ bpc = "none" /\ ~in_loop
        /\ results = <<>> /\ combined_results = <<>>
        /\ Len(call) <= 1
        /\ call # <<>> =>
              /\ pc = "seq"
              /\ seq_i \in 1..Len(context_chunks)
              /\ call[1].chunk = ReprList(context_chunks[seq_i][2])
              /\ call[1].metadata.files = context_chunks[seq_i][1]
              /\ call[1].metadata.previous = consolidated_context
              /\ seq_i = 1 => call[1].metadata.previous = <<>>
        /\ (pc \in {"write", "done"} /\ context_chunks # <<>>) =>
              /\ seq_i = Len(context_chunks) + 1
              /\ responses = <<consolidated_context>>

\* The running context is replaced by the text of the invocation that
\* returns, and changes at no other step; the loop moves on by one bundle
\* with every invocation that returns.
SeqContextStep ==
    (PROCESSING_TYPE = "sequential" /\ pc = "seq") =>
        /\ (call # <<>> /\ call' = <<>> /\ pc' = "seq") =>
              /\ consolidated_context' \in gw_texts
              /\ seq_i' = seq_i + 1
        /\ ~(call # <<>> /\ call' = <<>> /\ pc' = "seq") =>
              /\ consolidated_context' = consolidated_context
              /\ seq_i' = seq_i

\* C19: in sequential mode the bundles are invoked one at a time in list
\* order, with no batch and no cooldown; the i-th invocation carries as
\* running context the output of invocation i-1 and nothing earlier, the
\* first an empty context, and the final document is the output of the last
\* invocation.
C19_SequentialChain == []SeqOneAtATime /\ [][SeqContextStep]_vars

\* The third bundle is being invoked with the second invocation's output as
\* its previous context.
C19_Witness ==
    /\ PROCESSING_TYPE = "sequential"
    /\ pc = "seq"
    /\ seq_i = 3
    /\ call # <<>>
    /\ call[1].metadata.previous # <<>>

----------------------------------------------------------------------------
(* Claims about the final consolidation call *)

\* The final call is in flight only when the last merge left exactly one
\* bundle, with that bundle's label and text as its input and no worker
\* running; once ask_claude_batch has returned, no invocation is in flight.
FinalOnOneBundle ==
    PROCESSING_TYPE = "parallel" =>
        /\ pc = "final" =>
              /\ Len(combined_results) = 1
              /\ call = <<ResultBundleRequest(combined_results[1])>>
              /\ call[1].metadata.label = combined_results[1][1]
              /\ call[1].chunk = combined_results[1][2]
              /\ Running = {}
              /\ responses = <<>>
        /\ pc # "final" => call = <<>>
        /\ pc \in {"write", "done"} =>
              /\ Len(responses) = 1
              /\ Running = {}

\* The final call is entered from the loop test only, and is left only by
\* returning the gateway's text as the document or by raising; after it no
\* invocation is started.
FinalOnceStep ==
    PROCESSING_TYPE = "parallel" =>
        /\ (pc # "final" /\ pc' = "final") => pc = "while"
        /\ pc = "final" =>
              /\ pc' \in {"final", "write", "aborted"}
              /\ pc' = "write" => (\E t \in gw_texts : responses' = <<t>>)
        /\ pc \in {"write", "done"} =>
              /\ pc' \in {"write", "done"}
              /\ responses' = responses
              /\ call' = <<>>
              /\ slots' = slots

\* C20: in parallel mode the final consolidation call is issued once, only
\* after a merge has left exactly one bundle, with that bundle's label and
\* text as its input; ask_claude_batch returns the text that call returns,
\* and no gateway invocation happens after it.
C20_FinalCallOnce == []FinalOnOneBundle /\ [][FinalOnceStep]_vars

\* After at least one round of the reduce loop the final call has returned
\* the document.
C20_Witness ==
    /\ PROCESSING_TYPE = "parallel"
    /\ pc = "write"
    /\ in_loop
    /\ Len(combined_results) = 1
    /\ Len(responses) = 1

----------------------------------------------------------------------------
(* Claims about empty units *)

\* The bundles are the texts of consecutive runs of the units, each run of
\* at least one unit.
RECURSIVE CR_NonEmptyRuns(_, _)
CR_NonEmptyRuns(bundles, units) ==
    IF bundles = <<>> THEN TRUE
    ELSE \E k \in 1..Len(units) :
            /\ Head(bundles)[2] = Join(SubSeq(units, 1, k))
            /\ CR_NonEmptyRuns(Tail(bundles), SubSeq(units, k + 1, Len(units)))

\* The content of the i-th unit of the list process_in_batches works on.
UnitContent(i) ==
    IF in_loop THEN combined_results[i][2] ELSE Join(context_chunks[i][2])

\* C21 as stated: every chunk process_file emits holds at least one line,
\* every bundle combine_chunks emits holds at least one chunk, every bundle
\* combine_results emits holds at least one result, and no gateway
\* invocation is made for a unit with empty content.
C21_Original ==
    /\ \A i \in 1..Len(all_chunks) : all_chunks[i][2] # <<>>
    /\ \A i \in 1..Len(context_chunks) : context_chunks[i][2] # <<>>
    /\ pc = "while" => CR_NonEmptyRuns(combined_results, results)
    /\ \A j \in Running : UnitContent(batch_start + j) # <<>>
    /\ pc = "final" => combined_results[1][2] # <<>>

----------------------------------------------------------------------------
(* Claims about the output file *)

\* The invocations of the sequential loop that have returned so far.
SeqSucceeded == IF seq_i = 0 THEN 0 ELSE seq_i - 1

\* C22 as stated: when main has written the output file, at least one
\* gateway invocation has succeeded before, and the text written is the text
\* the last invocation returned: the running context of the sequential loop
\* after at least one call, or the text of the final consolidation call.
C22_Original ==
    pc = "done" =>
        /\ Len(output_file) = 1
        /\ output_file = responses
        /\ IF PROCESSING_TYPE = "sequential"
           THEN /\ SeqSucceeded >= 1
                /\ output_file[1] = consolidated_context
                /\ output_file[1] \in gw_texts
           ELSE /\ results # <<>>
                /\ Len(combined_results) = 1
                /\ output_file[1] \in gw_texts

====
